---- MODULE Spec2Model ----
(***************************************************************************)
(* A model of edgedb.lang.graphql.translator: GraphQLTranslator.translate  *)
(* and the methods it calls, as a state machine over one translator        *)
(* instance.  The instance fields _fragments and _vars are the shared      *)
(* state; every translate call has its own locals (document, supplied      *)
(* variables, loop positions, the query being built, the result dict).     *)
(* The loops of translate, _populate_variable_defaults and                 *)
(* _process_definition are stepped one iteration per action; the recursive *)
(* descent below one top-level selection (_process_selset and what it      *)
(* calls) is computed by recursive operators that thread the variable      *)
(* environment and the raised exception through the traversal in the       *)
(* order the Python code evaluates it.                                     *)
(***************************************************************************)
EXTENDS Integers, Sequences, FiniteSets, TLC

VARIABLES
    self_fragments,  \* the instance field self._fragments: name -> fragment definition
    self_vars,       \* the instance field self._vars: the variable environment
    gqltree,         \* per call: the document, its sequence of definitions
    variables,       \* per call: the variables the caller supplied
    pc,              \* per call: where the call stands
    defIdx,          \* per call: the definition the loop of translate is at
    declIdx,         \* per call: the declaration _populate_variable_defaults is at
    selIdx,          \* per call: the selection the loop of _process_definition is at
    query,           \* per call: the local query of _process_definition
    result,          \* per call: the local result of translate
    error,           \* per call: the exception that ended the call
    obs              \* per call: what the traversals of the current operation did

vars == <<self_fragments, self_vars, gqltree, variables, pc, defIdx, declIdx, selIdx,
          query, result, error, obs>>

(***************************************************************************)
(* Python values.  A value is tagged with its Python type, type(val).      *)
(***************************************************************************)
PyNone == [t |-> "NoneType", v |-> "None"]
PyBool(b) == [t |-> "bool", v |-> b]
PyInt(n) == [t |-> "int", v |-> n]
PyStr(s) == [t |-> "str", v |-> s]
PyList(elems) == [t |-> "list", v |-> elems]

\* Optional strings (a name, a module, an operation kind) that are None.
None == "None"

(***************************************************************************)
(* Exceptions.  exc is the Python exception class, msg the message         *)
(* template of the raise statement.                                        *)
(***************************************************************************)
NoError == [exc |-> "", msg |-> ""]
ValidationError(msg) == [exc |-> "GraphQLValidationError", msg |-> msg]
KeyError(what) == [exc |-> "KeyError", msg |-> what]
IndexError(what) == [exc |-> "IndexError", msg |-> what]
ValueError(what) == [exc |-> "ValueError", msg |-> what]
SchemaError(what) == [exc |-> "SchemaError", msg |-> what]
RecursionError == [exc |-> "RecursionError", msg |-> "maximum recursion depth exceeded"]

(***************************************************************************)
(* The input document (edgedb.lang.graphql.ast), as the translator reads   *)
(* it: the attributes the code accesses, under the code's names.           *)
(***************************************************************************)
Variable(name) == [kind |-> "Variable", value |-> name]
BooleanLiteral(b) == [kind |-> "BooleanLiteral", value |-> b]
IntegerLiteral(n) == [kind |-> "IntegerLiteral", value |-> n]
StringLiteral(s) == [kind |-> "StringLiteral", value |-> s]
ListLiteral(elems) == [kind |-> "ListLiteral", value |-> elems]
ObjectLiteral == [kind |-> "ObjectLiteral", value |-> "{}"]
NoLiteral == [kind |-> "None", value |-> None]

\* An argument name is its sequence of tokens: the segments that '__' separates
\* and, last, the four-character operator suffix when the name ends in one
\* ("groups__name__in" is <<"groups", "name", "__in">>).
Argument(name, value) == [name |-> name, value |-> value]
Directive(name, arguments) == [name |-> name, arguments |-> arguments]
Include(cond) == Directive("include", <<Argument(<<"if">>, cond)>>)
Skip(cond) == Directive("skip", <<Argument(<<"if">>, cond)>>)
EdgeDB(module) == Directive("edgedb", <<Argument(<<"module">>, StringLiteral(module))>>)

NoSelectionSet == [is_none |-> TRUE, selections |-> <<>>]
SelectionSet(selections) == [is_none |-> FALSE, selections |-> selections]

Field(name, arguments, directives, selection_set) ==
    [kind |-> "Field", name |-> name, on |-> None, arguments |-> arguments,
     directives |-> directives, selection_set |-> selection_set]
InlineFragment(on, directives, selections) ==
    [kind |-> "InlineFragment", name |-> None, on |-> on, arguments |-> <<>>,
     directives |-> directives, selection_set |-> SelectionSet(selections)]
FragmentSpread(name, directives) ==
    [kind |-> "FragmentSpread", name |-> name, on |-> None, arguments |-> <<>>,
     directives |-> directives, selection_set |-> NoSelectionSet]

VarType(name, nullable, list) == [name |-> name, nullable |-> nullable, list |-> list]
VariableDefinition(name, type, value) == [name |-> name, type |-> type, value |-> value]

FragmentDefinition(name, on, directives, selections) ==
    [kind |-> "FragmentDefinition", name |-> name, type |-> None, on |-> on,
     variables |-> <<>>, directives |-> directives,
     selection_set |-> SelectionSet(selections)]
OperationDefinition(name, type, declarations, directives, selections) ==
    [kind |-> "OperationDefinition", name |-> name, type |-> type, on |-> None,
     variables |-> declarations, directives |-> directives,
     selection_set |-> SelectionSet(selections)]

(***************************************************************************)
(* The schema the translator is constructed with: a fixture with a small   *)
(* type hierarchy (User and Group derive from NamedObject, Setting stands  *)
(* alone), links between the concepts and atomic properties.               *)
(***************************************************************************)
Concepts == {"User", "Group", "NamedObject", "Setting"}
Atoms == {"str", "int", "float", "bool"}
Modules == {None, "test"}

\* schema.get(name): whether the lookup succeeds (it raises SchemaError otherwise).
SchemaHas(module, name) == module \in Modules /\ name \in Concepts

\* cls.issubclass(other): the reflexive, transitive subclass relation.
IsSubclass(cls, other) ==
    \/ cls = other
    \/ cls \in {"User", "Group"} /\ other = "NamedObject"

\* The pointers of each concept: name -> target (a concept or an atom).
Pointers ==
    [c \in Concepts |->
        CASE c = "NamedObject" -> <<[name |-> "name", target |-> "str"]>>
          [] c = "User" -> <<[name |-> "name", target |-> "str"],
                             [name |-> "age", target |-> "int"],
                             [name |-> "active", target |-> "bool"],
                             [name |-> "groups", target |-> "Group"]>>
          [] c = "Group" -> <<[name |-> "name", target |-> "str"],
                              [name |-> "size", target |-> "int"],
                              [name |-> "settings", target |-> "Setting"],
                              [name |-> "owner", target |-> "NamedObject"]>>
          [] c = "Setting" -> <<[name |-> "name", target |-> "str"],
                                [name |-> "value", target |-> "str"]>>]

\* type.resolve_pointer(schema, name).target, or None when the type has no
\* such pointer (an atom has none).
ResolvePointer(type, name) ==
    IF type \in Concepts /\ \E i \in 1..Len(Pointers[type]) : Pointers[type][i].name = name
    THEN LET i == CHOOSE i \in 1..Len(Pointers[type]) : Pointers[type][i].name = name
         IN Pointers[type][i].target
    ELSE None

\* target.get_implementation_type(): the s_types class of an atom.
ImplementationType(target) ==
    CASE target = "str" -> "Str"
      [] target = "int" -> "Int"
      [] target = "float" -> "Float"
      [] target = "bool" -> "Bool"
      [] OTHER -> None

(***************************************************************************)
(* The module's tables.                                                    *)
(***************************************************************************)
GQL_OPS_MAP == {"__eq", "__ne", "__in", "__ni"}

OpOf(suffix) ==
    CASE suffix = "__eq" -> "EQ"
      [] suffix = "__ne" -> "NE"
      [] suffix = "__in" -> "IN"
      [] suffix = "__ni" -> "NOT_IN"

\* PY_COERCION_MAP: the schema types that accept a Python value of each type.
PY_COERCION_KEYS == {"str", "int", "float", "bool"}

PY_COERCION_MAP(pytype) ==
    CASE pytype = "str" -> {"Str", "UUID"}
      [] pytype = "int" -> {"Int", "Float", "Decimal", "UUID"}
      [] pytype = "float" -> {"Float", "Decimal"}
      [] pytype = "bool" -> {"Bool"}

GQL_TYPE_NAMES == {"String", "Int", "Float", "Boolean", "ID"}

GQL_TYPE_NAMES_MAP(name) ==
    CASE name = "String" -> "Str"
      [] name = "Int" -> "Int"
      [] name = "Float" -> "Float"
      [] name = "Boolean" -> "Bool"
      [] name = "ID" -> "UUID"

(***************************************************************************)
(* The target tree (edgedb.lang.edgeql.ast), as the translator builds it.  *)
(***************************************************************************)
NoneNode == [node |-> "None"]
ConstantNode(index, value) == [node |-> "ConstantNode", index |-> index, value |-> value]
SequenceNode(elements) == [node |-> "SequenceNode", elements |-> elements]
PathStepNode(expr) == [node |-> "PathStepNode", expr |-> expr]
LinkExprNode(name) == [node |-> "LinkExprNode", expr |-> [node |-> "LinkNode", name |-> name]]
PathNode(steps, pathspec) == [node |-> "PathNode", steps |-> steps, pathspec |-> pathspec]
BinOpNode(left, op, right) == [node |-> "BinOpNode", left |-> left, op |-> op, right |-> right]
SelectPathSpecNode(expr, where, pathspec) ==
    [node |-> "SelectPathSpecNode", expr |-> expr, where |-> where, pathspec |-> pathspec]
SelectExprNode(expr) == [node |-> "SelectExprNode", expr |-> expr]
SelectQueryNode(namespaces, targets, where) ==
    [node |-> "SelectQueryNode", op |-> None, namespaces |-> namespaces,
     targets |-> targets, where |-> where]
UnionQueryNode(op_larg, op_rarg) ==
    [node |-> "SelectQueryNode", op |-> "UNION", op_larg |-> op_larg, op_rarg |-> op_rarg]

(***************************************************************************)
(* The variable environment self._vars: a dict (insertion-ordered) from    *)
(* name to [value, critical], here a sequence of entries with distinct     *)
(* names.                                                                  *)
(***************************************************************************)
Entry(name, val, crit) == [name |-> name, val |-> val, crit |-> crit]

Names(env) == {env[i].name : i \in 1..Len(env)}

IndexOf(env, name) == CHOOSE i \in 1..Len(env) : env[i].name = name

\* env[name]
Get(env, name) == env[IndexOf(env, name)]

\* env[name] = entry: an existing key keeps its place, a new one comes last.
Put(env, name, val, crit) ==
    IF name \in Names(env)
    THEN [env EXCEPT ![IndexOf(env, name)] = Entry(name, val, crit)]
    ELSE Append(env, Entry(name, val, crit))

\* A variant that marks only a variable whose value is true.
MarkCriticalWhenTrue(env, name) ==
    [env EXCEPT ![IndexOf(env, name)].crit = (@ \/ env[IndexOf(env, name)].val = PyBool(TRUE))]

\* A variant that reads the variable and leaves its flag alone.
MarkCriticalNever(env, name) == env

\* var[1] = True on the entry of name.
MarkCritical(env, name) == [env EXCEPT ![IndexOf(env, name)].crit = TRUE]

\* The order of Python's string comparison on the variable names in use.
NameOrder == <<"a", "b", "c">>

NameRank(name) == CHOOSE i \in 1..Len(NameOrder) : NameOrder[i] = name

RECURSIVE Insert(_, _)
Insert(pair, sorted) ==
    IF sorted = <<>> THEN <<pair>>
    ELSE IF NameRank(pair.name) <= NameRank(Head(sorted).name)
         THEN <<pair>> \o sorted
         ELSE <<Head(sorted)>> \o Insert(pair, Tail(sorted))

\* list.sort() of (name, value) pairs with distinct names.
RECURSIVE Sort(_)
Sort(pairs) == IF pairs = <<>> THEN <<>> ELSE Insert(Head(pairs), Sort(Tail(pairs)))

\* [(name, val) for name, (val, crit) in self._vars.items() if crit]; sort()
RECURSIVE CritPairs(_)
CritPairs(env) ==
    IF env = <<>> THEN <<>>
    ELSE (IF Head(env).crit THEN <<[name |-> Head(env).name, val |-> Head(env).val]>> ELSE <<>>)
         \o CritPairs(Tail(env))

CritVars(env) == Sort(CritPairs(env))

\* A variant that builds the environment once per call: an entry already
\* there keeps its critical flag.
FreshVarsKeepFlags(supplied) ==
    [i \in 1..Len(supplied) |->
        Entry(supplied[i].name, supplied[i].val,
              /\ supplied[i].name \in Names(self_vars)
              /\ Get(self_vars, supplied[i].name).crit)]

\* {name: [val, False] for name, val in variables.items()}
RECURSIVE FreshVars(_)
FreshVars(supplied) ==
    IF supplied = <<>> THEN <<>>
    ELSE <<Entry(Head(supplied).name, Head(supplied).val, FALSE)>> \o FreshVars(Tail(supplied))

(***************************************************************************)
(* What a traversal threads: the environment, the exception raised (the    *)
(* traversal stops at the first), and a record of what the traversal did   *)
(* (obs), which the program does not keep: the conditional directives      *)
(* evaluated, the selections dispatched, those excluded and where the      *)
(* exception was raised, by position.  A position is the path of indices   *)
(* from the top-level selection down, continued through fragment bodies.   *)
(***************************************************************************)
NoPos == <<>>
NoObs == [evaluated |-> {}, visited |-> {}, excluded |-> {}, raisedAt |-> NoPos]

Raise(st, err, pos) == [st EXCEPT !.err = err, !.obs.raisedAt = pos]

Failed(st) == st.err # NoError

(***************************************************************************)
(* Literals.                                                               *)
(***************************************************************************)
\* literal.topython(), and the .value of a scalar literal.
RECURSIVE ToPython(_)
ToPython(literal) ==
    CASE literal.kind = "BooleanLiteral" -> PyBool(literal.value)
      [] literal.kind = "IntegerLiteral" -> PyInt(literal.value)
      [] literal.kind = "StringLiteral" -> PyStr(literal.value)
      [] literal.kind = "ListLiteral" ->
            PyList([i \in 1..Len(literal.value) |-> ToPython(literal.value[i])])
      [] literal.kind = "ObjectLiteral" -> [t |-> "dict", v |-> "{}"]
      [] OTHER -> PyNone

\* _process_literal: the target node, or the exception for an object literal
\* (also one nested in a list literal).
RECURSIVE HasObjectLiteral(_)
HasObjectLiteral(literal) ==
    \/ literal.kind = "ObjectLiteral"
    \/ /\ literal.kind = "ListLiteral"
       /\ \E i \in 1..Len(literal.value) : HasObjectLiteral(literal.value[i])

RECURSIVE LiteralNode(_)
LiteralNode(literal) ==
    CASE literal.kind = "ListLiteral" ->
            SequenceNode([i \in 1..Len(literal.value) |-> LiteralNode(literal.value[i])])
      [] literal.kind = "Variable" -> ConstantNode(literal.value, PyNone)
      [] OTHER -> ConstantNode(None, ToPython(literal))

ProcessLiteral(literal) ==
    IF HasObjectLiteral(literal)
    THEN [err |-> ValidationError("don't know how to translate an Object literal to EdgeQL"),
          node |-> NoneNode]
    ELSE [err |-> NoError, node |-> LiteralNode(literal)]

(***************************************************************************)
(* _validate_value and _validate_arg: the exception raised, or NoError.    *)
(***************************************************************************)
RECURSIVE ValidateElements(_, _)
ValidateElements(values, base_t) ==
    IF values = <<>> THEN NoError
    ELSE IF Head(values).t \notin PY_COERCION_KEYS THEN KeyError(Head(values).t)
    ELSE IF base_t \notin PY_COERCION_MAP(Head(values).t)
         THEN ValidationError("value is not of type accepted")
         ELSE ValidateElements(Tail(values), base_t)

ValidateValue(value, base_t, as_sequence) ==
    IF as_sequence
    THEN IF value.t # "list"
         THEN ValidationError("argument should be a List")
         ELSE ValidateElements(value.v, base_t)
    ELSE ValidateElements(<<value>>, base_t)

\* The type a path reaches: schema.get(steps[0]) followed by resolve_pointer
\* per further step; None when a step does not resolve.
RECURSIVE WalkPath(_, _)
WalkPath(type, steps) ==
    IF steps = <<>> \/ type = None THEN type
    ELSE WalkPath(ResolvePointer(type, Head(steps)), Tail(steps))

\* path is the root concept followed by the link names.
ValidateArg(path, value, as_sequence) ==
    IF value.t = "NoneType" THEN NoError
    ELSE IF ~SchemaHas(None, Head(path)) THEN SchemaError(Head(path))
    ELSE LET target == WalkPath(Head(path), Tail(path)) IN
         IF target = None THEN SchemaError("pointer")
         ELSE IF ImplementationType(target) = None THEN SchemaError("implementation type")
         ELSE ValidateValue(value, ImplementationType(target), as_sequence)

(***************************************************************************)
(* Traversal results are [st, val]: the threaded state and the value       *)
(* returned (unused when st carries an exception).                         *)
(***************************************************************************)
\* name = v in the rest K of a method body.
With(v, K(_)) == K(v)

Ok(st, val) == [st |-> st, val |-> val]

\* raise err, at the selection at pos.
Fail(st, err, pos) == [st |-> Raise(st, err, pos), val |-> NoneNode]

\* r = <call>; the rest K of the method runs unless the call raised.
Bind(r, K(_)) == IF Failed(r.st) THEN [st |-> r.st, val |-> NoneNode] ELSE K(r)

(***************************************************************************)
(* Directives.                                                             *)
(***************************************************************************)
IsIf(a) == a.name = <<"if">>

IsModule(a) == a.name = <<"module">>

\* _get_module: the module argument of the last edgedb directive, or None.
RECURSIVE GetModule(_)
GetModule(directives) ==
    IF directives = <<>> THEN None
    ELSE IF directives[Len(directives)].name = "edgedb"
    THEN SelectSeq(directives[Len(directives)].arguments, IsModule)[1].value.value
    ELSE GetModule(SubSeq(directives, 1, Len(directives) - 1))

Seen(pos, i, var) == [pos |-> pos, index |-> i, var |-> var]

RECURSIVE ShouldIncludeFrom(_, _, _, _)

\* The checks of _should_include on the condition value cond of directive
\* i: it must be a bool; an excluding directive returns False at once.
Decide(directives, i, pos, st, cond) ==
    IF cond.t # "bool"
    THEN [st |-> Raise(st, ValidationError("'if' argument must be a Boolean"), pos),
          val |-> FALSE]
    ELSE IF \/ directives[i].name = "include" /\ cond.v = FALSE
            \/ directives[i].name = "skip" /\ cond.v = TRUE
    THEN Ok(st, FALSE)
    ELSE ShouldIncludeFrom(directives, i + 1, pos, st)

\* The condition of directive i, arg its 'if' argument: a variable is looked
\* up in the environment and marked critical, a literal gives its value.
ReadCondition(directives, i, pos, st, arg) ==
    IF arg.kind = "Variable"
    THEN IF arg.value \notin Names(st.vars)
         THEN [st |-> Raise(st, KeyError(arg.value), pos), val |-> FALSE]
         ELSE Decide(directives, i, pos,
                     [st EXCEPT !.vars = MarkCritical(@, arg.value),
                                !.obs.evaluated = @ \cup {Seen(pos, i, arg.value)}],
                     Get(st.vars, arg.value).val)
    ELSE Decide(directives, i, pos,
                [st EXCEPT !.obs.evaluated = @ \cup {Seen(pos, i, None)}],
                ToPython(arg))

\* _should_include from directive i on; val is the value returned.
ShouldIncludeFrom(directives, i, pos, st) ==
    IF i > Len(directives) THEN Ok(st, TRUE)
    ELSE IF directives[i].name \notin {"include", "skip"}
    THEN ShouldIncludeFrom(directives, i + 1, pos, st)
    ELSE IF SelectSeq(directives[i].arguments, IsIf) = <<>>
    THEN [st |-> Raise(st, IndexError("if"), pos), val |-> FALSE]
    ELSE ReadCondition(directives, i, pos, st,
                       SelectSeq(directives[i].arguments, IsIf)[1].value)

\* A variant that reads the directives and includes the selection whatever
\* they say.
ShouldIncludeAnyway(directives, pos, st) ==
    Bind(ShouldIncludeFrom(directives, 1, pos, st), LAMBDA inc : Ok(inc.st, TRUE))

ShouldInclude(directives, pos, st) == ShouldIncludeFrom(directives, 1, pos, st)

(***************************************************************************)
(* Fragment types.                                                         *)
(***************************************************************************)
\* A variant that accepts a fragment only on a supertype of the base type.
RelatedUpward(baseType, fragType) == IsSubclass(baseType, fragType)

\* The subtype test of _validate_fragment_type.
Related(baseType, fragType) == IsSubclass(baseType, fragType) \/ IsSubclass(fragType, baseType)

\* _validate_fragment_type: the exception raised, or NoError.  base is the
\* root concept followed by the link names taken so far.
ValidateFragmentType(base, frag) ==
    IF frag.on = None THEN NoError
    ELSE IF ~SchemaHas(GetModule(frag.directives), frag.on) THEN SchemaError(frag.on)
    ELSE IF ~SchemaHas(None, Head(base)) THEN SchemaError(Head(base))
    ELSE With(WalkPath(Head(base), Tail(base)), LAMBDA baseType :
         IF baseType = None THEN SchemaError("pointer")
         ELSE IF ~Related(baseType, frag.on)
         THEN ValidationError(IF frag.name # None THEN "fragment is incompatible"
                              ELSE "inline fragment is incompatible")
         ELSE NoError)

(***************************************************************************)
(* Arguments and filters.                                                  *)
(***************************************************************************)
\* get_path_prefix() of _process_select_where and _process_path_where.
PathPrefix(base) ==
    <<PathStepNode(Head(base))>> \o [i \in 1..(Len(base) - 1) |-> LinkExprNode(base[i + 1])]

HasSuffix(name) == name[Len(name)] \in GQL_OPS_MAP

NameParts(name) == IF HasSuffix(name) THEN SubSeq(name, 1, Len(name) - 1) ELSE name

ArgOp(name) == IF HasSuffix(name) THEN OpOf(name[Len(name)]) ELSE "EQ"

\* The PathNode an argument name stands for.
ArgPath(base, name) ==
    PathNode(PathPrefix(base)
             \o [k \in 1..Len(NameParts(name)) |-> LinkExprNode(NameParts(name)[k])], <<>>)

\* getattr(value, 'index', None)
HasIndex(value) == value.node = "ConstantNode" /\ value.index # None

\* check_value: the value of the variable, the values of a sequence's
\* elements, or the value of the constant.
CheckValue(value, arg, env) ==
    IF HasIndex(value) THEN Get(env, arg.value.value).val
    ELSE IF value.node = "SequenceNode"
    THEN PyList([k \in 1..Len(value.elements) |-> value.elements[k].value])
    ELSE value.value

\* _process_arguments from argument i on; val is the list of (name, op,
\* value) triples, as the BinOpNodes the callers make of them.
RECURSIVE ProcessArgumentsFrom(_, _, _, _, _, _)
ProcessArgumentsFrom(base, args, i, pos, st, triples) ==
    IF i > Len(args) THEN Ok(st, triples)
    ELSE With(ProcessLiteral(args[i].value), LAMBDA lit :
         IF lit.err # NoError THEN Fail(st, lit.err, pos)
         ELSE IF HasIndex(lit.node) /\ args[i].value.value \notin Names(st.vars)
         THEN Fail(st, KeyError(args[i].value.value), pos)
         ELSE With(ValidateArg(base \o NameParts(args[i].name),
                               CheckValue(lit.node, args[i], st.vars),
                               ArgOp(args[i].name) \in {"IN", "NOT_IN"}), LAMBDA err :
              IF err # NoError THEN Fail(st, err, pos)
              ELSE ProcessArgumentsFrom(base, args, i + 1, pos, st,
                       Append(triples, BinOpNode(ArgPath(base, args[i].name),
                                                 ArgOp(args[i].name), lit.node)))))

\* _join_expressions: the left-nested conjunction.
RECURSIVE JoinExpressions(_)
JoinExpressions(exprs) ==
    IF Len(exprs) = 1 THEN exprs[1]
    ELSE BinOpNode(JoinExpressions(SubSeq(exprs, 1, Len(exprs) - 1)), "AND", exprs[Len(exprs)])

\* _process_select_where (base is the selection's name alone) and
\* _process_path_where; val is the filter.
ProcessWhere(base, arguments, pos, st) ==
    IF arguments = <<>> THEN Ok(st, NoneNode)
    ELSE Bind(ProcessArgumentsFrom(base, arguments, 1, pos, st, <<>>), LAMBDA r :
         Ok(r.st, JoinExpressions(r.val)))

(***************************************************************************)
(* The pathspec builder.                                                   *)
(***************************************************************************)
\* The depth of nested _process_pathspec calls the interpreter allows.
MaxDepth == 6

RECURSIVE ProcessPathspec(_, _, _, _, _)
RECURSIVE ProcessPathspecFrom(_, _, _, _, _, _, _)

\* _process_field; val is the one node to append.  The filter is built
\* before the nested pathspec.
ProcessField(base, field, pos, st, depth) ==
    Bind(ProcessWhere(Append(base, field.name), field.arguments, pos, st), LAMBDA w :
    IF field.selection_set.is_none
    THEN Ok(w.st, <<SelectPathSpecNode(LinkExprNode(field.name), w.val, <<>>)>>)
    ELSE Bind(ProcessPathspec(Append(base, field.name), field.selection_set.selections,
                              pos, w.st, depth + 1), LAMBDA r :
         Ok(r.st, <<SelectPathSpecNode(LinkExprNode(field.name), w.val, r.val)>>)))

\* _process_inline_fragment; val is the nodes to extend with.
ProcessInlineFragment(base, inline_frag, pos, st, depth) ==
    With(ValidateFragmentType(base, inline_frag), LAMBDA err :
    IF err # NoError THEN Fail(st, err, pos)
    ELSE ProcessPathspec(base, inline_frag.selection_set.selections, pos, st, depth + 1))

\* _process_spread; val is the nodes to extend with.
ProcessSpread(base, spread, pos, st, depth) ==
    IF spread.name \notin DOMAIN self_fragments
    THEN Fail(st, KeyError(spread.name), pos)
    ELSE With(ValidateFragmentType(base, self_fragments[spread.name]), LAMBDA err :
         IF err # NoError THEN Fail(st, err, pos)
         ELSE ProcessPathspec(base, self_fragments[spread.name].selection_set.selections,
                              pos, st, depth + 1))

\* A variant that keeps the selections of a fragment together under a node
\* of their own.
DispatchNested(base, sel, pos, st, depth) ==
    IF sel.kind = "Field" THEN ProcessField(base, sel, pos, st, depth)
    ELSE Bind(IF sel.kind = "InlineFragment"
              THEN ProcessInlineFragment(base, sel, pos, st, depth)
              ELSE ProcessSpread(base, sel, pos, st, depth),
              LAMBDA r :
              Ok(r.st, <<SelectPathSpecNode(LinkExprNode("fragment"), NoneNode, r.val)>>))

\* The isinstance chain of _process_pathspec: what one included selection
\* adds to the pathspec.
Dispatch(base, sel, pos, st, depth) ==
    CASE sel.kind = "Field" -> ProcessField(base, sel, pos, st, depth)
      [] sel.kind = "InlineFragment" -> ProcessInlineFragment(base, sel, pos, st, depth)
      [] sel.kind = "FragmentSpread" -> ProcessSpread(base, sel, pos, st, depth)

\* The loop of _process_pathspec from selection i on.
ProcessPathspecFrom(base, selections, i, pos, st, pathspec, depth) ==
    IF i > Len(selections) THEN Ok(st, pathspec)
    ELSE Bind(ShouldInclude(selections[i].directives, Append(pos, i), st), LAMBDA inc :
         IF ~inc.val
         THEN ProcessPathspecFrom(base, selections, i + 1, pos,
                                  [inc.st EXCEPT !.obs.excluded = @ \cup {Append(pos, i)}],
                                  pathspec, depth)
         ELSE Bind(Dispatch(base, selections[i], Append(pos, i),
                            [inc.st EXCEPT !.obs.visited = @ \cup {Append(pos, i)}], depth),
                   LAMBDA r :
                   ProcessPathspecFrom(base, selections, i + 1, pos, r.st,
                                       pathspec \o r.val, depth)))

\* _process_pathspec; a call nested deeper than the interpreter allows
\* raises RecursionError.
ProcessPathspec(base, selections, pos, st, depth) ==
    IF depth > MaxDepth THEN Fail(st, RecursionError, pos)
    ELSE ProcessPathspecFrom(base, selections, 1, pos, st, <<>>, depth)

\* _process_selset; val is the SelectExprNode.
ProcessSelset(selset, pos, st) ==
    IF ~SchemaHas(None, selset.name)
    THEN Fail(st, ValidationError("does not exist in the schema"), pos)
    ELSE IF selset.selection_set.is_none
    THEN Fail(st, [exc |-> "AttributeError", msg |-> "selections"], pos)
    ELSE Bind(ProcessPathspec(<<selset.name>>, selset.selection_set.selections, pos, st, 1),
              LAMBDA r :
              Ok(r.st, SelectExprNode(PathNode(<<PathStepNode(selset.name)>>, r.val))))

\* One iteration of the loop of _process_definition: the select query of one
\* top-level selection (its targets, then its filter).
ProcessTopSelection(module, selset, pos, st) ==
    Bind(ProcessSelset(selset, pos, [st EXCEPT !.obs.visited = @ \cup {pos}]), LAMBDA t :
    Bind(ProcessWhere(<<selset.name>>, selset.arguments, pos, t.st), LAMBDA w :
    Ok(w.st, SelectQueryNode(<<module>>, <<t.val>>, w.val))))

\* A variant that puts the new query on the left of the union.
CombineSwapped(q, selquery) ==
    IF q.node = "None" THEN selquery ELSE UnionQueryNode(selquery, q)

\* query = selquery, or the union of the query so far and selquery.
Combine(q, selquery) == IF q.node = "None" THEN selquery ELSE UnionQueryNode(q, selquery)

(***************************************************************************)
(* _populate_variable_defaults, one declaration: [vars, err].              *)
(***************************************************************************)
\* The checks on the value the environment holds after seeding.
CheckDeclared(decl, val) ==
    IF val.t = "NoneType"
    THEN IF ~decl.type.nullable
         THEN ValidationError("non-nullable variable is missing a value")
         ELSE NoError
    ELSE IF decl.type.list /\ val.t # "list"
    THEN ValidationError("variable should be a List")
    ELSE IF decl.type.name \notin GQL_TYPE_NAMES
    THEN KeyError(decl.type.name)
    ELSE ValidateValue(val, GQL_TYPE_NAMES_MAP(decl.type.name), decl.type.list)

\* A variant that tests the value of the entry, not the entry: a falsy value
\* is taken for a missing one.
SeedWhenFalsy(decl, env) ==
    IF \/ decl.name \notin Names(env)
       \/ Get(env, decl.name).val \in {PyNone, PyBool(FALSE), PyInt(0), PyStr(""), PyList(<<>>)}
    THEN Put(env, decl.name,
             IF decl.value.kind = "None" THEN PyNone ELSE ToPython(decl.value), FALSE)
    ELSE env

\* A variant that seeds whether or not the name has an entry.
SeedAlways(decl, env) ==
    Put(env, decl.name,
        IF decl.value.kind = "None" THEN PyNone ELSE ToPython(decl.value), FALSE)

\* The environment after seeding: a name without an entry gets the default,
\* or None when there is none (an entry is a two-element list, never falsy).
Seed(decl, env) ==
    IF decl.name \notin Names(env)
    THEN Put(env, decl.name,
             IF decl.value.kind = "None" THEN PyNone ELSE ToPython(decl.value), FALSE)
    ELSE env

PopulateVariable(decl, env) ==
    IF decl.value.kind # "None" /\ ~decl.type.nullable
    THEN [vars |-> env,
          err |-> ValidationError("variable cannot be non-nullable and have a default")]
    ELSE [vars |-> Seed(decl, env),
          err |-> CheckDeclared(decl, Get(Seed(decl, env), decl.name).val)]

(***************************************************************************)
(* The calls.  A call c of translate(gqltree, variables) on the instance   *)
(* moves start -> loop -> (populate -> selsets -> loop)* -> done, or to    *)
(* failed when an exception is raised.                                     *)
(***************************************************************************)
Calls == {1, 2, 3}

Definition(c) == gqltree[c][defIdx[c]]

\* A variant that adds the fragments of the document to the table the
\* instance has, and so keeps those of the documents translated before.
FragmentTableMerged(definitions) ==
    LET idx == {i \in 1..Len(definitions) : definitions[i].kind = "FragmentDefinition"}
        last(n) == CHOOSE i \in idx :
                       /\ definitions[i].name = n
                       /\ \A j \in idx : definitions[j].name = n => j <= i
        new == {definitions[i].name : i \in idx}
    IN [n \in new \cup DOMAIN self_fragments |->
           IF n \in new THEN definitions[last(n)] ELSE self_fragments[n]]

\* self._fragments = {f.name: f for f in definitions if FragmentDefinition}:
\* of two fragments with one name the later wins.
FragmentTable(definitions) ==
    LET idx == {i \in 1..Len(definitions) : definitions[i].kind = "FragmentDefinition"}
        last(n) == CHOOSE i \in idx :
                       /\ definitions[i].name = n
                       /\ \A j \in idx : definitions[j].name = n => j <= i
    IN [n \in {definitions[i].name : i \in idx} |-> definitions[last(n)]]

\* result[name] = value
SetItem(dict, name, value) ==
    [n \in (DOMAIN dict) \cup {name} |-> IF n = name THEN value ELSE dict[n]]

\* translate, up to its loop: the fragment table and the empty result.
Translate(c) ==
    /\ pc[c] = "start"
    /\ self_fragments' = FragmentTable(gqltree[c])
    /\ result' = [result EXCEPT ![c] = <<>>]
    /\ defIdx' = [defIdx EXCEPT ![c] = 1]
    /\ pc' = [pc EXCEPT ![c] = "loop"]
    /\ UNCHANGED <<self_vars, gqltree, variables, declIdx, selIdx, query, error, obs>>

\* The loop of translate at a definition that is no operation.
SkipFragment(c) ==
    /\ pc[c] = "loop"
    /\ defIdx[c] <= Len(gqltree[c])
    /\ Definition(c).kind # "OperationDefinition"
    /\ defIdx' = [defIdx EXCEPT ![c] = @ + 1]
    /\ UNCHANGED <<self_fragments, self_vars, gqltree, variables, pc, declIdx, selIdx,
                   query, result, error, obs>>

\* The loop of translate at an operation: the fresh environment, and the
\* entry of _process_definition (query = None, the check of the kind).
BeginOperation(c) ==
    /\ pc[c] = "loop"
    /\ defIdx[c] <= Len(gqltree[c])
    /\ Definition(c).kind = "OperationDefinition"
    /\ self_vars' = FreshVars(variables[c])
    /\ obs' = [obs EXCEPT ![c] = NoObs]
    /\ query' = [query EXCEPT ![c] = NoneNode]
    /\ declIdx' = [declIdx EXCEPT ![c] = 1]
    /\ IF Definition(c).type \in {None, "query"}
       THEN /\ pc' = [pc EXCEPT ![c] = "populate"]
            /\ UNCHANGED error
       ELSE /\ pc' = [pc EXCEPT ![c] = "failed"]
            /\ error' = [error EXCEPT ![c] = ValueError("unsupported definition type")]
    /\ UNCHANGED <<self_fragments, gqltree, variables, defIdx, selIdx, result>>

\* One iteration of the loop of _populate_variable_defaults.
PopulateVariableDefaults(c) ==
    /\ pc[c] = "populate"
    /\ declIdx[c] <= Len(Definition(c).variables)
    /\ With(PopulateVariable(Definition(c).variables[declIdx[c]], self_vars), LAMBDA r :
       /\ self_vars' = r.vars
       /\ IF r.err = NoError
          THEN /\ declIdx' = [declIdx EXCEPT ![c] = @ + 1]
               /\ UNCHANGED <<pc, error>>
          ELSE /\ pc' = [pc EXCEPT ![c] = "failed"]
               /\ error' = [error EXCEPT ![c] = r.err]
               /\ UNCHANGED declIdx)
    /\ UNCHANGED <<self_fragments, gqltree, variables, defIdx, selIdx, query, result, obs>>

\* _populate_variable_defaults returns; _process_definition reads the module
\* and enters its loop over the top-level selections.
EnterSelections(c) ==
    /\ pc[c] = "populate"
    /\ declIdx[c] > Len(Definition(c).variables)
    /\ selIdx' = [selIdx EXCEPT ![c] = 1]
    /\ pc' = [pc EXCEPT ![c] = "selsets"]
    /\ UNCHANGED <<self_fragments, self_vars, gqltree, variables, defIdx, declIdx, query,
                   result, error, obs>>

\* One iteration of the loop of _process_definition.
ProcessDefinition(c) ==
    /\ pc[c] = "selsets"
    /\ selIdx[c] <= Len(Definition(c).selection_set.selections)
    /\ With(ProcessTopSelection(GetModule(Definition(c).directives),
                                Definition(c).selection_set.selections[selIdx[c]],
                                <<selIdx[c]>>,
                                [vars |-> self_vars, err |-> NoError, obs |-> obs[c]]),
            LAMBDA r :
       /\ self_vars' = r.st.vars
       /\ obs' = [obs EXCEPT ![c] = r.st.obs]
       /\ IF Failed(r.st)
          THEN /\ pc' = [pc EXCEPT ![c] = "failed"]
               /\ error' = [error EXCEPT ![c] = r.st.err]
               /\ UNCHANGED <<query, selIdx>>
          ELSE /\ query' = [query EXCEPT ![c] = Combine(@, r.val)]
               /\ selIdx' = [selIdx EXCEPT ![c] = @ + 1]
               /\ UNCHANGED <<pc, error>>)
    /\ UNCHANGED <<self_fragments, gqltree, variables, defIdx, declIdx, result>>

\* _process_definition returns the query; translate reads the critical
\* variables off the environment and records the pair under the name.
RecordOperation(c) ==
    /\ pc[c] = "selsets"
    /\ selIdx[c] > Len(Definition(c).selection_set.selections)
    /\ result' = [result EXCEPT ![c] =
                     SetItem(@, Definition(c).name,
                             [query |-> query[c], critvars |-> CritVars(self_vars)])]
    /\ defIdx' = [defIdx EXCEPT ![c] = @ + 1]
    /\ pc' = [pc EXCEPT ![c] = "loop"]
    /\ UNCHANGED <<self_fragments, self_vars, gqltree, variables, declIdx, selIdx, query,
                   error, obs>>

\* A variant that also returns, from a call that has failed, the results it
\* has so far.
ReturnPartial(c) ==
    /\ \/ pc[c] = "loop" /\ defIdx[c] > Len(gqltree[c])
       \/ pc[c] = "failed"
    /\ pc' = [pc EXCEPT ![c] = "done"]
    /\ UNCHANGED <<self_fragments, self_vars, gqltree, variables, defIdx, declIdx, selIdx,
                   query, result, error, obs>>

\* translate returns result.
Return(c) ==
    /\ pc[c] = "loop"
    /\ defIdx[c] > Len(gqltree[c])
    /\ pc' = [pc EXCEPT ![c] = "done"]
    /\ UNCHANGED <<self_fragments, self_vars, gqltree, variables, defIdx, declIdx, selIdx,
                   query, result, error, obs>>

Step(c) ==
    \/ Translate(c)
    \/ SkipFragment(c)
    \/ BeginOperation(c)
    \/ PopulateVariableDefaults(c)
    \/ EnterSelections(c)
    \/ ProcessDefinition(c)
    \/ RecordOperation(c)
    \/ Return(c)

(***************************************************************************)
(* The inputs: documents and supplied variables, in families that each     *)
(* vary one part of a document.                                            *)
(***************************************************************************)
MaxTop == 3     \* top-level selections of an operation
MaxOps == 3     \* operations of a document
MaxDecls == 2   \* variable declarations of an operation

SeqsUpTo(S, n) == UNION {[1..k -> S] : k \in 1..n}

Pair(name, val) == [name |-> name, val |-> val]

\* The ordered dicts over the names a and b with values from Va and Vb.
Envs(Va, Vb) ==
    {<<>>} \cup {<<Pair("a", x)>> : x \in Va} \cup {<<Pair("b", y)>> : y \in Vb}
    \cup {<<Pair("a", x), Pair("b", y)>> : x \in Va, y \in Vb}
    \cup {<<Pair("b", y), Pair("a", x)>> : x \in Va, y \in Vb}

Leaf(name) == Field(name, <<>>, <<>>, NoSelectionSet)

\* The fragments every document defines.  userFrag spreads namedFrag.
Fragments ==
    <<FragmentDefinition("userFrag", "User", <<EdgeDB("test")>>,
          <<Field("age", <<>>, <<Skip(Variable("b"))>>, NoSelectionSet),
            FragmentSpread("namedFrag", <<>>),
            Leaf("active")>>),
      FragmentDefinition("namedFrag", "NamedObject", <<EdgeDB("test")>>, <<Leaf("name")>>),
      FragmentDefinition("groupFrag", "Group", <<EdgeDB("test")>>, <<Leaf("size")>>),
      FragmentDefinition("settingFrag", "Setting", <<EdgeDB("test")>>, <<Leaf("value")>>),
      FragmentDefinition("bogusFrag", "Bogus", <<EdgeDB("test")>>, <<Leaf("name")>>)>>

Query(name, declarations, selections) ==
    OperationDefinition(name, "query", declarations, <<EdgeDB("test")>>, selections)

\* Conditional directives on one selection of a selection set.
Conds == {Variable("a"), Variable("b"), BooleanLiteral(TRUE), BooleanLiteral(FALSE)}

DirLists ==
    {<<>>} \cup {<<Include(c)>> : c \in Conds} \cup {<<Skip(c)>> : c \in Conds}
    \cup {<<Include(Variable("a")), Skip(Variable("b"))>>,
          <<Skip(Variable("a")), Include(Variable("b"))>>,
          <<EdgeDB("test"), Skip(Variable("a"))>>,
          <<Include(BooleanLiteral(FALSE)), Skip(IntegerLiteral(1))>>,
          <<Skip(IntegerLiteral(1)), Include(BooleanLiteral(FALSE))>>}

\* The selections of User that carry the directives d: fields, fragments, and
\* selections whose processing raises.
Carriers(d) ==
    {Field("name", <<>>, d, NoSelectionSet),
     Field("groups", <<Argument(<<"size">>, Variable("b"))>>, d,
           SelectionSet(<<Field("name", <<>>, <<Include(Variable("b"))>>, NoSelectionSet)>>)),
     InlineFragment("NamedObject", d,
           <<Field("age", <<>>, <<Skip(Variable("b"))>>, NoSelectionSet), Leaf("groups")>>),
     FragmentSpread("userFrag", d),
     InlineFragment("Setting", d, <<Leaf("value")>>),
     FragmentSpread("missing", d),
     Field("groups", <<Argument(<<"name">>, IntegerLiteral(1))>>, d, NoSelectionSet),
     Field("groups", <<Argument(<<"name">>, ObjectLiteral)>>, d, NoSelectionSet)}

DirectiveDocs ==
    {<<Query("q", <<>>, <<Field("User", <<>>, <<>>,
                               SelectionSet(<<Leaf("name"), x, Leaf("age")>>))>>)>>
       \o Fragments : x \in UNION {Carriers(d) : d \in DirLists}}

DirectiveCases ==
    {[doc |-> d, vars |-> e] :
        d \in DirectiveDocs,
        e \in Envs({PyBool(TRUE), PyBool(FALSE), PyInt(0)}, {PyBool(TRUE), PyBool(FALSE)})}

\* Top-level selections: with a filter, with a directive, of an unknown concept.
TopSelections ==
    {Field("User", <<>>, <<>>, SelectionSet(<<Leaf("name")>>)),
     Field("Group", <<Argument(<<"size">>, Variable("b"))>>, <<>>,
           SelectionSet(<<Field("name", <<>>, <<Include(Variable("a"))>>, NoSelectionSet)>>)),
     Field("User", <<>>, <<Skip(Variable("a"))>>, SelectionSet(<<Leaf("age")>>)),
     Field("Setting", <<>>, <<Include(BooleanLiteral(FALSE))>>, SelectionSet(<<Leaf("value")>>)),
     Field("Bogus", <<>>, <<>>, SelectionSet(<<Leaf("name")>>))}

UnionCases ==
    {[doc |-> <<Query("q", <<>>, sels)>>, vars |-> e] :
        sels \in SeqsUpTo(TopSelections, MaxTop),
        e \in Envs({PyBool(TRUE), PyBool(FALSE)}, {PyInt(0)})}

\* Variable declarations.
Declarations ==
    {VariableDefinition("a", VarType("Boolean", TRUE, FALSE), NoLiteral),
     VariableDefinition("a", VarType("Boolean", TRUE, FALSE), BooleanLiteral(TRUE)),
     VariableDefinition("a", VarType("Boolean", FALSE, FALSE), NoLiteral),
     VariableDefinition("a", VarType("Boolean", FALSE, FALSE), BooleanLiteral(TRUE)),
     VariableDefinition("a", VarType("Boolean", TRUE, TRUE), NoLiteral),
     VariableDefinition("b", VarType("Int", TRUE, FALSE), NoLiteral),
     VariableDefinition("b", VarType("Int", TRUE, FALSE), IntegerLiteral(1))}

DeclarationCases ==
    {[doc |-> <<Query("q", decls,
                     <<Field("User", <<>>, <<>>,
                         SelectionSet(<<Field("name", <<>>, <<Skip(Variable("a"))>>,
                                              NoSelectionSet),
                                        Field("groups", <<Argument(<<"size">>, Variable("b"))>>,
                                              <<>>, SelectionSet(<<Leaf("name")>>))>>))>>)>>,
      vars |-> e] :
        decls \in SeqsUpTo(Declarations, MaxDecls),
        e \in Envs({PyBool(TRUE), PyBool(FALSE), PyInt(0), PyList(<<PyBool(TRUE)>>), PyNone},
                   {PyInt(0), PyList(<<PyInt(0)>>)})}

\* Documents of several operations.
Operations ==
    {Query("q1", <<>>,
           <<Field("User", <<>>, <<>>,
                   SelectionSet(<<Field("name", <<>>, <<Include(Variable("a"))>>,
                                        NoSelectionSet), Leaf("age")>>))>>),
     Query("q2", <<VariableDefinition("a", VarType("Boolean", TRUE, FALSE), BooleanLiteral(TRUE))>>,
           <<Field("User", <<>>, <<>>,
                   SelectionSet(<<Leaf("name"),
                                  Field("age", <<>>, <<Skip(Variable("a"))>>, NoSelectionSet)>>))>>),
     Query("q3", <<VariableDefinition("b", VarType("Int", TRUE, FALSE), IntegerLiteral(1))>>,
           <<Field("Group", <<Argument(<<"size">>, Variable("b"))>>, <<>>,
                   SelectionSet(<<Leaf("name")>>))>>),
     OperationDefinition("m", "mutation", <<>>, <<EdgeDB("test")>>,
           <<Field("User", <<>>, <<>>, SelectionSet(<<Leaf("name")>>))>>),
     OperationDefinition(None, None, <<>>, <<>>,
           <<Field("Group", <<>>, <<>>,
                   SelectionSet(<<Field("name", <<>>, <<Skip(Variable("b"))>>,
                                        NoSelectionSet),
                                  FragmentSpread("groupFrag", <<>>)>>))>>)}

OperationCases ==
    {[doc |-> SubSeq(Fragments, 1, 1) \o ops \o SubSeq(Fragments, 2, Len(Fragments)),
      vars |-> e] :
        ops \in SeqsUpTo(Operations, MaxOps),
        e \in Envs({PyBool(TRUE), PyBool(FALSE)}, {PyInt(0), PyBool(TRUE)})}

\* Fragments of every type at paths that reach User, Group and NamedObject.
FragmentTypes == {"User", "Group", "NamedObject", "Setting", "Bogus"}

TypedFragments ==
    {InlineFragment(on, <<>>, <<Leaf("name"), Leaf("id")>>) : on \in FragmentTypes \cup {None}}
    \cup {FragmentSpread(f, <<>>) :
            f \in {"userFrag", "namedFrag", "groupFrag", "settingFrag", "bogusFrag"}}
    \cup {InlineFragment("NamedObject", <<>>,
              <<InlineFragment("User", <<>>, <<Leaf("age")>>), FragmentSpread("namedFrag", <<>>)>>)}

Around(x) == SelectionSet(<<Leaf("name"), x, Leaf("id")>>)

FragmentDocs ==
    UNION {{<<Query("q", <<>>, <<Field("User", <<>>, <<>>, Around(x))>>)>> \o Fragments,
            <<Query("q", <<>>, <<Field("User", <<>>, <<>>,
                  SelectionSet(<<Field("groups", <<>>, <<>>, Around(x))>>))>>)>> \o Fragments,
            <<Query("q", <<>>, <<Field("Group", <<>>, <<>>,
                  SelectionSet(<<Field("owner", <<>>, <<>>, Around(x))>>))>>)>> \o Fragments}
           : x \in TypedFragments}

FragmentCases ==
    {[doc |-> d, vars |-> e] : d \in FragmentDocs, e \in Envs({}, {PyBool(TRUE), PyBool(FALSE)})}

Cases == DirectiveCases \cup UnionCases \cup DeclarationCases \cup OperationCases
         \cup FragmentCases

(***************************************************************************)
(* The specification: one call on a freshly constructed translator.        *)
(***************************************************************************)
InitOne(cases) ==
    \E case \in cases :
        /\ self_fragments = <<>>
        /\ self_vars = <<>>
        /\ gqltree = [c \in Calls |-> IF c = 1 THEN case.doc ELSE <<>>]
        /\ variables = [c \in Calls |-> IF c = 1 THEN case.vars ELSE <<>>]
        /\ pc = [c \in Calls |-> IF c = 1 THEN "start" ELSE "idle"]
        /\ defIdx = [c \in Calls |-> 1]
        /\ declIdx = [c \in Calls |-> 1]
        /\ selIdx = [c \in Calls |-> 1]
        /\ query = [c \in Calls |-> NoneNode]
        /\ result = [c \in Calls |-> <<>>]
        /\ error = [c \in Calls |-> NoError]
        /\ obs = [c \in Calls |-> NoObs]

Init == InitOne(Cases)

Next == \E c \in Calls : Step(c)

Spec == Init /\ [][Next]_vars

(***************************************************************************)
(* Several calls on one translator instance.  Call 1 translates a document *)
(* with variables, call 2 another document with other variables (or the    *)
(* same), call 3 what call 1 translated.                                   *)
(***************************************************************************)
\* Documents that differ in what the instance keeps of them: the fragments
\* they define under one name, the variables their directives read, the
\* operation that fails.
SeqDocs ==
    LET shape(frag) ==
            Query("q1", <<>>,
                  <<Field("User", <<>>, <<>>,
                          SelectionSet(<<Field("name", <<>>, <<Include(Variable("a"))>>,
                                               NoSelectionSet),
                                         FragmentSpread(frag, <<>>),
                                         Field("groups", <<Argument(<<"size">>, Variable("b"))>>,
                                               <<Skip(Variable("a"))>>,
                                               SelectionSet(<<Field("name", <<>>,
                                                                    <<Include(Variable("c"))>>,
                                                                    NoSelectionSet)>>))>>))>>)
        other == Query("q2", <<VariableDefinition("c", VarType("Boolean", TRUE, FALSE),
                                                  BooleanLiteral(TRUE))>>,
                       <<Field("Group", <<>>, <<>>,
                               SelectionSet(<<Field("name", <<>>, <<Skip(Variable("c"))>>,
                                                    NoSelectionSet),
                                              Leaf("size")>>))>>)
        named(sel) == FragmentDefinition("namedFrag", "NamedObject", <<EdgeDB("test")>>,
                                         <<Leaf(sel)>>)
    IN  {<<shape("namedFrag"), named("name")>>,
         <<named("id"), shape("namedFrag")>>,
         <<shape("namedFrag")>>,
         <<shape("namedFrag"), other, named("name")>>,
         <<named("name"), other, shape("groupFrag")>>,
         <<named("id")>>}

SeqEnvs ==
    {<<>>,
     <<Pair("a", PyBool(TRUE)), Pair("b", PyInt(0))>>,
     <<Pair("a", PyBool(TRUE)), Pair("b", PyInt(1)), Pair("c", PyBool(FALSE))>>,
     <<Pair("a", PyBool(FALSE)), Pair("b", PyInt(0)), Pair("c", PyBool(FALSE))>>,
     <<Pair("a", PyBool(FALSE)), Pair("b", PyInt(0)), Pair("c", PyBool(TRUE))>>,
     <<Pair("a", PyBool(FALSE)), Pair("b", PyInt(1)), Pair("c", PyBool(FALSE))>>,
     <<Pair("c", PyBool(TRUE)), Pair("a", PyBool(FALSE)), Pair("b", PyStr("x"))>>}

SeqCases == {[doc |-> d, vars |-> e] : d \in SeqDocs, e \in SeqEnvs}

InitCalls(firsts, seconds) ==
    \E first \in firsts, second \in seconds :
        /\ self_fragments = <<>>
        /\ self_vars = <<>>
        /\ gqltree = [c \in Calls |-> IF c = 2 THEN second.doc ELSE first.doc]
        /\ variables = [c \in Calls |-> IF c = 2 THEN second.vars ELSE first.vars]
        /\ pc = [c \in Calls |-> "start"]
        /\ defIdx = [c \in Calls |-> 1]
        /\ declIdx = [c \in Calls |-> 1]
        /\ selIdx = [c \in Calls |-> 1]
        /\ query = [c \in Calls |-> NoneNode]
        /\ result = [c \in Calls |-> <<>>]
        /\ error = [c \in Calls |-> NoError]
        /\ obs = [c \in Calls |-> NoObs]

InitSeq == InitCalls(SeqCases, SeqCases)

\* translate has returned or raised.
Finished(c) == pc[c] \in {"done", "failed"}

\* The calls are made one after another: a call begins when the calls
\* before it have returned or raised.
TranslateInTurn(c) == (\A d \in Calls : d < c => Finished(d)) /\ Translate(c)

StepSeq(c) ==
    \/ TranslateInTurn(c)
    \/ SkipFragment(c)
    \/ BeginOperation(c)
    \/ PopulateVariableDefaults(c)
    \/ EnterSelections(c)
    \/ ProcessDefinition(c)
    \/ RecordOperation(c)
    \/ Return(c)

NextSeq == \E c \in Calls : StepSeq(c)

SpecSeq == InitSeq /\ [][NextSeq]_vars

(***************************************************************************)
(* Concurrent calls on one instance.  Call 1 runs alone and is the         *)
(* reference; calls 2 and 3 are then made from two threads, so their steps *)
(* interleave.  self._fragments and self._vars are attributes of the       *)
(* instance: both threads assign and read the same two objects.            *)
(***************************************************************************)
ConcFirst ==
    {k \in SeqCases :
        k.vars \in {<<>>,
                    <<Pair("a", PyBool(TRUE)), Pair("b", PyInt(0))>>,
                    <<Pair("a", PyBool(FALSE)), Pair("b", PyInt(0)), Pair("c", PyBool(TRUE))>>}}

ConcSecond ==
    {k \in SeqCases :
        /\ Len(k.doc) >= 2
        /\ k.vars \in {<<Pair("a", PyBool(TRUE)), Pair("b", PyInt(1)), Pair("c", PyBool(FALSE))>>,
                       <<Pair("c", PyBool(TRUE)), Pair("a", PyBool(FALSE)), Pair("b", PyStr("x"))>>}}

InitConc == InitCalls(ConcFirst, ConcSecond)

TranslateAfterAlone(c) == (c # 1 => Finished(1)) /\ Translate(c)

StepConc(c) ==
    \/ TranslateAfterAlone(c)
    \/ SkipFragment(c)
    \/ BeginOperation(c)
    \/ PopulateVariableDefaults(c)
    \/ EnterSelections(c)
    \/ ProcessDefinition(c)
    \/ RecordOperation(c)
    \/ Return(c)

NextConc == \E c \in Calls : StepConc(c)

SpecConc == InitConc /\ [][NextConc]_vars

(***************************************************************************)
(* Documents whose fragments spread one another, in a cycle or not: a      *)
(* fragment that spreads itself, two that spread each other, a cycle that  *)
(* passes through a field or an inline fragment, with a conditional        *)
(* directive on the selections of the cycle.  translate is called once on  *)
(* a fresh instance and runs on: the interpreter never stops executing a   *)
(* call that can take a step.                                              *)
(***************************************************************************)
CycleDirs ==
    {<<>>, <<Include(Variable("a"))>>, <<Skip(Variable("a"))>>,
     <<Include(BooleanLiteral(FALSE))>>}

CycleFragments ==
    LET on(name, type, selections) ==
            FragmentDefinition(name, type, <<EdgeDB("test")>>, selections)
    IN  {<<on("userFrag", "User", <<Leaf("age"), FragmentSpread("userFrag", d)>>)>>
            : d \in CycleDirs}
        \cup
        {<<on("userFrag", "User", <<FragmentSpread("namedFrag", d), Leaf("active")>>),
           on("namedFrag", "NamedObject", <<Leaf("name"), FragmentSpread("userFrag", e)>>)>>
            : d \in CycleDirs, e \in CycleDirs}
        \cup
        {<<on("groupFrag", "Group",
              <<Leaf("size"),
                Field("owner", <<>>, <<>>,
                      SelectionSet(<<FragmentSpread("userFrag", <<>>)>>))>>),
           on("userFrag", "User",
              <<Field("groups", <<>>, d,
                      SelectionSet(<<FragmentSpread("groupFrag", <<>>)>>))>>)>>
            : d \in CycleDirs}
        \cup
        {<<on("userFrag", "User",
              <<Leaf("name"),
                InlineFragment("User", d, <<FragmentSpread("userFrag", <<>>)>>)>>)>>
            : d \in CycleDirs}
        \cup
        {<<on("userFrag", "User", <<FragmentSpread("namedFrag", <<>>), Leaf("active")>>),
           on("namedFrag", "NamedObject", <<Leaf("name")>>)>>}

CycleDocs ==
    {<<Query("q", decls,
             <<Field("User", <<>>, <<>>,
                     SelectionSet(<<Leaf("name"), FragmentSpread("userFrag", d)>>))>>)>>
        \o frags
        : decls \in {<<>>, <<VariableDefinition("a", VarType("Boolean", TRUE, FALSE),
                                                BooleanLiteral(FALSE))>>},
          d \in {<<>>, <<Include(Variable("a"))>>},
          frags \in CycleFragments}

CycleCases ==
    {[doc |-> d, vars |-> e] :
        d \in CycleDocs,
        e \in {<<>>, <<Pair("a", PyBool(TRUE))>>, <<Pair("a", PyBool(FALSE))>>}}

InitCycle == InitOne(CycleCases)

\* The steps of translate outside the loop of _process_definition.
Housekeeping ==
    \E c \in Calls :
        \/ Translate(c)
        \/ SkipFragment(c)
        \/ BeginOperation(c)
        \/ PopulateVariableDefaults(c)
        \/ EnterSelections(c)
        \/ RecordOperation(c)
        \/ Return(c)

\* The guard of ProcessDefinition: a call is in the loop of
\* _process_definition with a top-level selection left.
Selecting ==
    \E c \in Calls :
        /\ pc[c] = "selsets"
        /\ selIdx[c] <= Len(Definition(c).selection_set.selections)

\* The interpreter does not abandon a call under way: weak fairness of the
\* housekeeping steps and of ProcessDefinition, the latter with its
\* enabledness written out as its guard (the rest of the action assigns).
Fairness ==
    /\ WF_vars(Housekeeping)
    /\ []<>(~Selecting) \/ []<><<\E c \in Calls : ProcessDefinition(c)>>_vars

SpecCycle == InitCycle /\ [][Next]_vars /\ Fairness

(***************************************************************************)
(* What the properties below speak of.                                     *)
(***************************************************************************)
\* The call has just recorded the result of an operation: the definition
\* before defIdx, whose environment self_vars still is.
JustRecorded(c) ==
    /\ pc[c] = "loop"
    /\ defIdx[c] > 1
    /\ gqltree[c][defIdx[c] - 1].kind = "OperationDefinition"

RecordedOp(c) == gqltree[c][defIdx[c] - 1]

Recorded(c) == result[c][RecordedOp(c).name]

\* The call is inside _process_definition for the definition at defIdx, or
\* has failed there.
InOperation(c) ==
    /\ pc[c] \in {"populate", "selsets", "failed"}
    /\ defIdx[c] <= Len(gqltree[c])
    /\ Definition(c).kind = "OperationDefinition"

CritNames(critvars) == {critvars[i].name : i \in 1..Len(critvars)}

\* The 'if' argument of a conditional directive.
IfArg(directive) == SelectSeq(directive.arguments, IsIf)[1].value

\* The value a condition has under env (None for a variable env lacks).
CondValue(arg, env) ==
    IF arg.kind = "Variable"
    THEN IF arg.value \in Names(env) THEN Get(env, arg.value).val ELSE PyNone
    ELSE ToPython(arg)

\* @include with a false condition, or @skip with a true one.
Excluding(directive, env) ==
    /\ directive.name \in {"include", "skip"}
    /\ CondValue(IfArg(directive), env).t = "bool"
    /\ CondValue(IfArg(directive), env).v = (directive.name = "skip")

CarriesExcluding(directives, env) ==
    \E i \in 1..Len(directives) : Excluding(directives[i], env)

\* The selections a selection holds: its selection set, or for a spread the
\* body of the fragment the document defines under its name.
Children(sel, frags) ==
    IF sel.kind = "FragmentSpread"
    THEN IF sel.name \in DOMAIN frags THEN frags[sel.name].selection_set.selections ELSE <<>>
    ELSE sel.selection_set.selections

\* The variables of the conditional directives of one selection, from
\* directive i on, up to and including the first directive that excludes.
RECURSIVE DirectiveVars(_, _, _)
DirectiveVars(directives, i, env) ==
    IF i > Len(directives) THEN {}
    ELSE IF directives[i].name \notin {"include", "skip"}
    THEN DirectiveVars(directives, i + 1, env)
    ELSE (IF IfArg(directives[i]).kind = "Variable" THEN {IfArg(directives[i]).value} ELSE {})
         \cup (IF Excluding(directives[i], env) THEN {}
               ELSE DirectiveVars(directives, i + 1, env))

\* The variables of the conditional directives on the selections of a
\* selection set and, for the selections no directive excludes, of the
\* selection sets below them.
RECURSIVE ReadVars(_, _, _)
ReadVars(selections, env, frags) ==
    UNION {DirectiveVars(selections[i].directives, 1, env)
           \cup (IF CarriesExcluding(selections[i].directives, env) THEN {}
                 ELSE ReadVars(Children(selections[i], frags), env, frags))
           : i \in 1..Len(selections)}

\* The same for an operation: the selection sets of its top-level selections.
OperationReadVars(op, env, frags) ==
    UNION {ReadVars(op.selection_set.selections[i].selection_set.selections, env, frags)
           : i \in 1..Len(op.selection_set.selections)}

\* Every variable an include or skip directive of the selections names,
\* whatever the selection and the position of the directive.
RECURSIVE AllDirectiveVars(_)
AllDirectiveVars(selections) ==
    UNION {{IfArg(selections[i].directives[k]).value :
               k \in {k \in 1..Len(selections[i].directives) :
                        /\ selections[i].directives[k].name \in {"include", "skip"}
                        /\ IfArg(selections[i].directives[k]).kind = "Variable"}}
           \cup AllDirectiveVars(selections[i].selection_set.selections)
           : i \in 1..Len(selections)}

(***************************************************************************)
(* C1.  As claimed: when translate has completed an operation, every       *)
(* variable that an @include or @skip directive anywhere in the operation  *)
(* names as its condition is in the operation's critical-variable list.    *)
(***************************************************************************)
C1_AsClaimed ==
    \A c \in Calls :
        JustRecorded(c) =>
            AllDirectiveVars(RecordedOp(c).selection_set.selections)
                \subseteq CritNames(Recorded(c).critvars)

(***************************************************************************)
(* What translate does ensure of the conditional directives it evaluates:  *)
(* the directives on the selections of a selection set below a top-level   *)
(* selection (fields, inline fragments, spreads, and the bodies of the     *)
(* fragments spread), outside the subtrees that a directive excludes, up   *)
(* to and including the first directive of a selection that excludes it.   *)
(* Every variable such a directive names is in the critical list of the    *)
(* recorded operation, whatever its value.                                 *)
(***************************************************************************)
EvaluatedAreCritical ==
    \A c \in Calls :
        JustRecorded(c) =>
            OperationReadVars(RecordedOp(c), self_vars, FragmentTable(gqltree[c]))
                \subseteq CritNames(Recorded(c).critvars)

\* An operation is recorded with two critical variables, one whose value
\* kept its selection and one whose value excluded it.
EvaluatedBothWays ==
    /\ JustRecorded(1)
    /\ OperationReadVars(RecordedOp(1), self_vars, FragmentTable(gqltree[1])) = {"a", "b"}
    /\ \E i, j \in 1..Len(Recorded(1).critvars) :
          /\ Recorded(1).critvars[i].val = PyBool(TRUE)
          /\ Recorded(1).critvars[j].val = PyBool(FALSE)

(***************************************************************************)
(* C2.  The critical-variable list recorded for an operation holds only    *)
(* variables that a conditional directive evaluated while that operation   *)
(* was translated names, each once, as (name, value) pairs in the order of *)
(* the names, the value being the one supplied or else the declared        *)
(* default.  A variable used only in a filter argument, only declared,     *)
(* only supplied, or marked critical in another operation of the document  *)
(* is not in it.                                                           *)
(***************************************************************************)
\* The value of a variable of an operation: the one supplied, else the
\* default of its first declaration.
SuppliedOrDefault(op, supplied, name) ==
    IF name \in Names(supplied) THEN Get(supplied, name).val
    ELSE LET decl == op.variables[CHOOSE i \in 1..Len(op.variables) :
                                      /\ op.variables[i].name = name
                                      /\ \A j \in 1..(i - 1) : op.variables[j].name # name]
         IN  IF decl.value.kind = "None" THEN PyNone ELSE ToPython(decl.value)

C2_OnlyEvaluatedSorted ==
    \A c \in Calls :
        JustRecorded(c) =>
            LET critvars == Recorded(c).critvars IN
            /\ CritNames(critvars)
                 \subseteq OperationReadVars(RecordedOp(c), self_vars, FragmentTable(gqltree[c]))
            /\ \A i, j \in 1..Len(critvars) :
                  i < j => NameRank(critvars[i].name) < NameRank(critvars[j].name)
            /\ \A i \in 1..Len(critvars) :
                  /\ DOMAIN critvars[i] = {"name", "val"}
                  /\ critvars[i].val
                       = SuppliedOrDefault(RecordedOp(c), variables[c], critvars[i].name)

\* The second operation of a document is recorded with a critical variable
\* of its own, and without the one that the first operation made critical,
\* though the environment has it.
C2_Witness ==
    /\ JustRecorded(1)
    /\ \E n \in DOMAIN result[1] :
          /\ n # RecordedOp(1).name
          /\ "a" \in CritNames(result[1][n].critvars)
    /\ "a" \in Names(self_vars)
    /\ CritNames(Recorded(1).critvars) = {"b"}

(***************************************************************************)
(* C3.  A selection of a selection set below a top-level selection that    *)
(* carries @include with a false condition or @skip with a true one adds   *)
(* nothing to the output and its subtree is never visited: no selection at *)
(* or below it is dispatched, no directive below it is evaluated (so no    *)
(* variable below it becomes critical) and no exception is raised below    *)
(* it; the pathspec nodes of a recorded operation are as many as the       *)
(* fields dispatched.                                                      *)
(***************************************************************************)
\* The operation the record obs[c] is about.
ObservedOp(c) == IF JustRecorded(c) THEN RecordedOp(c) ELSE Definition(c)

\* The selection at a position of an operation.
RECURSIVE NodeIn(_, _, _)
NodeIn(selections, pos, frags) ==
    IF Len(pos) = 1 THEN selections[pos[1]]
    ELSE NodeIn(Children(selections[pos[1]], frags), Tail(pos), frags)

\* The positions from the selection set of the top-level selection down to
\* pos, pos included, and those above pos.
DownTo(pos) == {SubSeq(pos, 1, k) : k \in 2..Len(pos)}

Above(pos) == DownTo(pos) \ {pos}

ExcludedAt(c, pos) ==
    CarriesExcluding(NodeIn(ObservedOp(c).selection_set.selections, pos,
                            FragmentTable(gqltree[c])).directives,
                     self_vars)

\* The select queries a union joins, left to right.
RECURSIVE Leaves(_)
Leaves(q) ==
    IF q.node = "None" THEN <<>>
    ELSE IF q.op = "UNION" THEN Leaves(q.op_larg) \o Leaves(q.op_rarg)
    ELSE <<q>>

\* The SelectPathSpecNodes of a pathspec, nested ones included.
RECURSIVE CountSpecs(_)
CountSpecs(pathspec) ==
    IF pathspec = <<>> THEN 0
    ELSE 1 + CountSpecs(Head(pathspec).pathspec) + CountSpecs(Tail(pathspec))

RECURSIVE CountLeaves(_)
CountLeaves(leaves) ==
    IF leaves = <<>> THEN 0
    ELSE CountSpecs(Head(leaves).targets[1].expr.pathspec) + CountLeaves(Tail(leaves))

CountQuery(q) == CountLeaves(Leaves(q))

C3_ExcludedContributesNothing ==
    \A c \in Calls :
        (pc[c] \in {"selsets", "failed"} \/ JustRecorded(c)) =>
            /\ \A q \in obs[c].visited : \A p \in DownTo(q) : ~ExcludedAt(c, p)
            /\ \A e \in obs[c].evaluated : \A p \in Above(e.pos) : ~ExcludedAt(c, p)
            /\ \A p \in Above(obs[c].raisedAt) : ~ExcludedAt(c, p)
            /\ JustRecorded(c) =>
                  CountQuery(Recorded(c).query)
                    = Cardinality({q \in obs[c].visited :
                                     /\ Len(q) >= 2
                                     /\ NodeIn(RecordedOp(c).selection_set.selections, q,
                                               FragmentTable(gqltree[c])).kind = "Field"})

\* An operation is recorded whose excluded selection holds a conditional
\* directive on a variable that did not become critical, between two
\* siblings that are in the output.
C3_Witness ==
    /\ JustRecorded(1)
    /\ obs[1].excluded = {<<1, 2>>}
    /\ ExcludedAt(1, <<1, 2>>)
    /\ AllDirectiveVars(Children(RecordedOp(1).selection_set.selections[1].selection_set.selections[2],
                                 FragmentTable(gqltree[1]))) = {"b"}
    /\ "b" \in Names(self_vars)
    /\ "b" \notin CritNames(Recorded(1).critvars)
    /\ CountQuery(Recorded(1).query) = 2

(***************************************************************************)
(* C4.  As claimed: in every step of a translate call, each entry of the   *)
(* variable environment stays, with the value it has, and a critical flag  *)
(* that is set stays set.                                                  *)
(***************************************************************************)
EntriesKept(old, new) ==
    \A n \in Names(old) :
        /\ n \in Names(new)
        /\ Get(new, n).val = Get(old, n).val
        /\ Get(old, n).crit => Get(new, n).crit

C4_AsClaimed == [][EntriesKept(self_vars, self_vars')]_vars

(***************************************************************************)
(* C4, amended.  While one operation definition is translated, each entry  *)
(* of the environment stays, with the value it has, and a critical flag    *)
(* that is set stays set.  When translate comes to the next operation it   *)
(* builds the environment anew from the supplied values: the defaults      *)
(* seeded for the operation before are gone and no entry is critical.      *)
(***************************************************************************)
\* The step in which translate reaches an operation definition.
ReachesOperation(c) == pc[c] = "loop" /\ pc'[c] \in {"populate", "failed"}

C4_KeptWithinOperation ==
    [][/\ (\A c \in Calls : ~ReachesOperation(c)) => EntriesKept(self_vars, self_vars')
       /\ \A c \in Calls :
             ReachesOperation(c) =>
                /\ Len(self_vars') = Len(variables[c])
                /\ \A i \in 1..Len(variables[c]) :
                      self_vars'[i] = Entry(variables[c][i].name, variables[c][i].val, FALSE)
      ]_vars

\* Inside an operation the environment holds a seeded default that a
\* conditional directive has made critical.
C4_Witness ==
    /\ pc[1] = "selsets"
    /\ \E n \in Names(self_vars) :
          /\ n \notin Names(variables[1])
          /\ Get(self_vars, n).crit
          /\ Get(self_vars, n).val = PyBool(TRUE)

(***************************************************************************)
(* C5.  The query of an operation with top-level selections s1..sn, in     *)
(* document order, is the left-nested union ((q1 UNION q2) UNION q3) ...   *)
(* of the select queries qi built from si: a union's right operand is a    *)
(* select query, the leaves from left to right are q1..qn, and for n = 1   *)
(* the query is q1 with no union node.  The same holds of the query built  *)
(* so far after each top-level selection.                                  *)
(***************************************************************************)
RECURSIVE LeftNested(_)
LeftNested(q) ==
    \/ q.op = None
    \/ /\ q.op = "UNION"
       /\ q.op_rarg.op = None
       /\ LeftNested(q.op_larg)

\* The select query of top-level selection i of the operation.
QueryOf(c, op, i) ==
    ProcessTopSelection(GetModule(op.directives), op.selection_set.selections[i], <<i>>,
                        [vars |-> self_vars, err |-> NoError, obs |-> NoObs]).val

\* The top-level selections processed, and the query built from them.
Processed(c) ==
    IF JustRecorded(c) THEN Len(RecordedOp(c).selection_set.selections) ELSE selIdx[c] - 1

BuiltQuery(c) == IF JustRecorded(c) THEN Recorded(c).query ELSE query[c]

C5_LeftNestedUnion ==
    \A c \in Calls :
        ((pc[c] = "selsets" \/ JustRecorded(c)) /\ Processed(c) >= 1) =>
            /\ LeftNested(BuiltQuery(c))
            /\ Len(Leaves(BuiltQuery(c))) = Processed(c)
            /\ \A i \in 1..Processed(c) :
                  Leaves(BuiltQuery(c))[i] = QueryOf(c, ObservedOp(c), i)
            /\ Processed(c) = 1 => BuiltQuery(c).op = None

\* An operation of three top-level selections, no two alike, is recorded.
C5_Witness ==
    /\ JustRecorded(1)
    /\ Len(RecordedOp(1).selection_set.selections) = 3
    /\ Recorded(1).query.op = "UNION"
    /\ Recorded(1).query.op_larg.op = "UNION"
    /\ Cardinality({Leaves(Recorded(1).query)[i] : i \in 1..3}) = 3

(***************************************************************************)
(* C6.  An included fragment (inline or spread, its type compatible) adds  *)
(* no level of nesting: its included selections are spliced into the       *)
(* pathspec of its parent where the fragment stands, in document order,    *)
(* between the fragment's siblings before and after, through fragments     *)
(* within fragments.  The pathspec is the one of the selection set in      *)
(* which each fragment is replaced by its included selections.             *)
(***************************************************************************)
\* The selection set with each excluded selection dropped and each fragment
\* replaced by its selections, treated the same way.
RECURSIVE Inlined(_, _, _)
Inlined(selections, env, frags) ==
    IF selections = <<>> THEN <<>>
    ELSE (IF CarriesExcluding(Head(selections).directives, env) THEN <<>>
          ELSE IF Head(selections).kind = "Field" THEN <<Head(selections)>>
          ELSE Inlined(Children(Head(selections), frags), env, frags))
         \o Inlined(Tail(selections), env, frags)

\* The pathspec has one node per field of the inlined selection set, in
\* order and of its name, and so have the pathspecs nested in it.
RECURSIVE ShapeOf(_, _, _, _)
ShapeOf(pathspec, selections, env, frags) ==
    LET flat == Inlined(selections, env, frags) IN
    /\ Len(pathspec) = Len(flat)
    /\ \A i \in 1..Len(flat) :
          /\ pathspec[i].node = "SelectPathSpecNode"
          /\ pathspec[i].expr.expr.name = flat[i].name
          /\ IF flat[i].selection_set.is_none THEN pathspec[i].pathspec = <<>>
             ELSE ShapeOf(pathspec[i].pathspec, flat[i].selection_set.selections, env, frags)

\* The pathspec recorded for top-level selection i of the operation.
RecordedPathspec(c, i) == Leaves(Recorded(c).query)[i].targets[1].expr.pathspec

C6_FragmentsSpliced ==
    \A c \in Calls :
        JustRecorded(c) =>
            \A i \in 1..Len(RecordedOp(c).selection_set.selections) :
                LET top == RecordedOp(c).selection_set.selections[i]
                    frags == FragmentTable(gqltree[c])
                IN  /\ ShapeOf(RecordedPathspec(c, i), top.selection_set.selections,
                               self_vars, frags)
                    /\ RecordedPathspec(c, i)
                         = ProcessPathspec(<<top.name>>,
                                           Inlined(top.selection_set.selections, self_vars, frags),
                                           <<i>>,
                                           [vars |-> self_vars, err |-> NoError, obs |-> NoObs],
                                           1).val

\* A spread of userFrag, which spreads namedFrag, is recorded between the
\* siblings name and id.
C6_Witness ==
    /\ JustRecorded(1)
    /\ Len(RecordedOp(1).selection_set.selections[1].selection_set.selections) = 3
    /\ RecordedOp(1).selection_set.selections[1].selection_set.selections[2].kind
         = "FragmentSpread"
    /\ RecordedOp(1).selection_set.selections[1].selection_set.selections[2].name = "userFrag"
    /\ [i \in 1..Len(RecordedPathspec(1, 1)) |-> RecordedPathspec(1, 1)[i].expr.expr.name]
         = <<"name", "age", "name", "active", "id">>

(***************************************************************************)
(* C7.  When an included inline fragment or fragment spread declares a     *)
(* type that the schema has, translation fails there with the validation   *)
(* error of an incompatible fragment exactly when neither the declared     *)
(* type nor the type that the base path reaches from the root type is a    *)
(* subtype of the other; when one is a subtype of the other (or they are   *)
(* equal) translation goes on into the fragment's selections.  A fragment  *)
(* that declares no type is never checked.                                 *)
(***************************************************************************)
\* The base path of a position: the name of the top-level selection and of
\* each field on the way down to the position.
RECURSIVE BasePath(_, _, _)
BasePath(selections, pos, frags) ==
    IF Len(pos) = 1 THEN <<>>
    ELSE (IF selections[pos[1]].kind = "Field" THEN <<selections[pos[1]].name>> ELSE <<>>)
         \o BasePath(Children(selections[pos[1]], frags), Tail(pos), frags)

\* The fragment dispatched at a position: the inline fragment there, or the
\* definition the spread there names.
FragmentAt(c, pos) ==
    LET sel == NodeIn(ObservedOp(c).selection_set.selections, pos, FragmentTable(gqltree[c]))
    IN  IF sel.kind = "FragmentSpread" THEN FragmentTable(gqltree[c])[sel.name] ELSE sel

\* The fragments that were included and dispatched.
DispatchedFragments(c) ==
    {q \in obs[c].visited :
        /\ Len(q) >= 2
        /\ LET sel == NodeIn(ObservedOp(c).selection_set.selections, q,
                             FragmentTable(gqltree[c]))
           IN  \/ sel.kind = "InlineFragment"
               \/ sel.kind = "FragmentSpread" /\ sel.name \in DOMAIN FragmentTable(gqltree[c])}

ReachedType(c, pos) ==
    LET base == BasePath(ObservedOp(c).selection_set.selections, pos,
                         FragmentTable(gqltree[c]))
    IN  WalkPath(Head(base), Tail(base))

\* The call has failed at the position with the error of an incompatible
\* fragment.
IncompatibleAt(c, pos) ==
    /\ pc[c] = "failed"
    /\ obs[c].raisedAt = pos
    /\ error[c].exc = "GraphQLValidationError"
    /\ error[c].msg \in {"fragment is incompatible", "inline fragment is incompatible"}

\* The traversal has come to the first selection of the fragment.
Entered(c, pos) ==
    \/ Append(pos, 1) \in obs[c].visited \cup obs[c].excluded
    \/ Len(obs[c].raisedAt) > Len(pos) /\ SubSeq(obs[c].raisedAt, 1, Len(pos) + 1) = Append(pos, 1)

C7_FragmentTypeChecked ==
    \A c \in Calls :
        (pc[c] \in {"selsets", "failed"} \/ JustRecorded(c)) =>
            \A q \in DispatchedFragments(c) :
                LET frag == FragmentAt(c, q) IN
                IF frag.on = None
                THEN ~IncompatibleAt(c, q) /\ Entered(c, q)
                ELSE (SchemaHas(GetModule(frag.directives), frag.on) /\ ReachedType(c, q) # None) =>
                        IF IsSubclass(frag.on, ReachedType(c, q))
                           \/ IsSubclass(ReachedType(c, q), frag.on)
                        THEN ~IncompatibleAt(c, q) /\ Entered(c, q)
                        ELSE IncompatibleAt(c, q)

\* A fragment on User is translated where the base path reaches its
\* supertype NamedObject.
C7_Witness ==
    /\ JustRecorded(1)
    /\ \E q \in DispatchedFragments(1) :
          /\ FragmentAt(1, q).on = "User"
          /\ ReachedType(1, q) = "NamedObject"

\* A fragment on Setting fails where the base path reaches Group.
C7_WitnessFails ==
    /\ pc[1] = "failed"
    /\ \E q \in DispatchedFragments(1) :
          /\ FragmentAt(1, q).on = "Setting"
          /\ ReachedType(1, q) = "Group"
          /\ IncompatibleAt(1, q)

(***************************************************************************)
(* C8.  For each declared variable of an operation that is not rejected    *)
(* as non-nullable with a default (C9): when the environment has no entry  *)
(* for its name, the entry is seeded with the declared default, or None    *)
(* when there is none; an entry that is there, its value falsy or not, is  *)
(* left as it is; and when the value after seeding is None and the         *)
(* declared type is non-nullable, translation fails with the validation    *)
(* error of a missing value, as it does in no other case.                  *)
(***************************************************************************)
\* Call c takes the step of _populate_variable_defaults for a declaration.
PopulatesDeclaration(c) ==
    /\ pc[c] = "populate"
    /\ declIdx[c] <= Len(Definition(c).variables)
    /\ pc'[c] # pc[c] \/ declIdx'[c] # declIdx[c]

DefaultOf(decl) == IF decl.value.kind = "None" THEN PyNone ELSE ToPython(decl.value)

MissingValue == ValidationError("non-nullable variable is missing a value")

C8_SeededNotReplaced ==
    [][\A c \in Calls :
          PopulatesDeclaration(c) =>
             LET decl == Definition(c).variables[declIdx[c]]
                 rejected == decl.value.kind # "None" /\ ~decl.type.nullable
             IN  /\ decl.name \in Names(self_vars) =>
                       Get(self_vars', decl.name) = Get(self_vars, decl.name)
                 /\ (~rejected /\ decl.name \notin Names(self_vars)) =>
                       /\ decl.name \in Names(self_vars')
                       /\ Get(self_vars', decl.name).val = DefaultOf(decl)
                 /\ ~rejected =>
                       ((Get(self_vars', decl.name).val.t = "NoneType" /\ ~decl.type.nullable)
                          <=> (pc'[c] = "failed" /\ error'[c] = MissingValue))
      ]_vars

\* The declarations are through: the false value supplied for a, which is
\* declared with the default true, is still there, and b, not supplied, has
\* its default.
C8_Witness ==
    /\ pc[1] = "selsets"
    /\ Definition(1).variables
         = <<VariableDefinition("a", VarType("Boolean", TRUE, FALSE), BooleanLiteral(TRUE)),
             VariableDefinition("b", VarType("Int", TRUE, FALSE), IntegerLiteral(1))>>
    /\ variables[1] = <<Pair("a", PyBool(FALSE))>>
    /\ Get(self_vars, "a").val = PyBool(FALSE)
    /\ Get(self_vars, "b").val = PyInt(1)

(***************************************************************************)
(* C9.  An operation that declares a non-nullable variable with a default  *)
(* fails with the validation error, whatever is supplied and whether or    *)
(* not the variable is used, and it fails before a directive is evaluated, *)
(* a variable is marked critical or a part of the target AST is built: it  *)
(* never comes to its selections and is never recorded.                    *)
(***************************************************************************)
DeclaresNonNullableDefault(op) ==
    \E i \in 1..Len(op.variables) :
        op.variables[i].value.kind # "None" /\ ~op.variables[i].type.nullable

C9_AsClaimed ==
    \A c \in Calls :
        /\ (InOperation(c) /\ DeclaresNonNullableDefault(Definition(c))) =>
              /\ pc[c] # "selsets"
              /\ obs[c] = NoObs
              /\ query[c] = NoneNode
              /\ \A i \in 1..Len(self_vars) : ~self_vars[i].crit
              /\ pc[c] = "failed" => error[c].exc = "GraphQLValidationError"
        /\ JustRecorded(c) => ~DeclaresNonNullableDefault(RecordedOp(c))

(***************************************************************************)
(* C10.  A declared variable whose list shape disagrees with its value     *)
(* fails with the validation error, both ways: declared a list with a      *)
(* value that is no list, and declared a scalar with a value that is a     *)
(* list.                                                                   *)
(***************************************************************************)
C10_AsClaimed ==
    [][\A c \in Calls :
          PopulatesDeclaration(c) =>
             LET decl == Definition(c).variables[declIdx[c]] IN
             (/\ decl.name \in Names(self_vars')
              /\ Get(self_vars', decl.name).val.t # "NoneType"
              /\ decl.type.list # (Get(self_vars', decl.name).val.t = "list")) =>
                 /\ pc'[c] = "failed"
                 /\ error'[c].exc = "GraphQLValidationError"
      ]_vars

\* The direction that does hold: a variable declared a list whose value is
\* no list fails with the validation error that it should be a List.
ListDeclaredRejected ==
    [][\A c \in Calls :
          PopulatesDeclaration(c) =>
             LET decl == Definition(c).variables[declIdx[c]] IN
             (/\ decl.name \in Names(self_vars')
              /\ Get(self_vars', decl.name).val.t \notin {"NoneType", "list"}
              /\ decl.type.list) =>
                 /\ pc'[c] = "failed"
                 /\ error'[c] = ValidationError("variable should be a List")
      ]_vars

(***************************************************************************)
(* C11.  For a fixed document, variable values and schema, translate       *)
(* returns the same target ASTs and the same critical-variable lists on    *)
(* every call on one translator instance, or raises the same exception:    *)
(* call 3, made after call 1 (the first call on the instance, of the same  *)
(* document and variables) and after call 2 (of any document and           *)
(* variables, failed or not), ends as call 1 ended.                        *)
(***************************************************************************)
\* What translate gives its caller: the result returned, or the exception.
Outcome(c) ==
    IF pc[c] = "done" THEN [returned |-> result[c], raised |-> NoError]
    ELSE [returned |-> <<>>, raised |-> error[c]]

C11_SameOnEveryCall ==
    (Finished(1) /\ Finished(3)) =>
        /\ pc[3] = pc[1]
        /\ Outcome(3) = Outcome(1)

\* Call 3 has returned critical variables after a failed call of another
\* document, with another fragment table and other variables.
C11_Witness ==
    /\ pc[1] = "done"
    /\ pc[2] = "failed"
    /\ pc[3] = "done"
    /\ FragmentTable(gqltree[2]) # FragmentTable(gqltree[1])
    /\ variables[2] # variables[1]
    /\ \E n \in DOMAIN result[3] : Len(result[3][n].critvars) >= 2

(***************************************************************************)
(* C12.  When the translation of an operation definition fails, translate  *)
(* returns nothing: the exception goes to the caller, the call takes no    *)
(* further step (no later definition is translated, nothing is recorded,   *)
(* the results of the earlier operations are never returned), and a call   *)
(* that returns has recorded every operation of its document.              *)
(***************************************************************************)
OperationNames(definitions) ==
    {definitions[i].name :
        i \in {i \in 1..Len(definitions) : definitions[i].kind = "OperationDefinition"}}

C12_FailureReturnsNothing ==
    [][\A c \in Calls :
          /\ pc[c] = "failed" =>
                /\ pc'[c] = "failed"
                /\ defIdx'[c] = defIdx[c]
                /\ result'[c] = result[c]
                /\ error'[c] = error[c]
          /\ pc'[c] = "failed" => error'[c] # NoError
          /\ pc'[c] = "done" =>
                /\ pc[c] # "failed"
                /\ error'[c] = NoError
                /\ DOMAIN result'[c] = OperationNames(gqltree[c])
      ]_vars

\* The call has failed at the second of three operations: the result of the
\* first is computed and the third is never translated.
C12_Witness ==
    /\ pc[1] = "failed"
    /\ DOMAIN result[1] # {}
    /\ \E i \in (defIdx[1] + 1)..Len(gqltree[1]) :
          gqltree[1][i].kind = "OperationDefinition"

(***************************************************************************)
(* C13.  Include and skip directives are evaluated for every selection     *)
(* before it is processed, a top-level selection of the operation too: for *)
(* a top-level selection that carries @include with a false condition or   *)
(* @skip with a true one no select query is built, and the recorded query  *)
(* joins the select queries of the other top-level selections only.        *)
(***************************************************************************)
\* The top-level selections of the operation that no directive excludes.
KeptTopSelections(op, env) ==
    {i \in 1..Len(op.selection_set.selections) :
        ~CarriesExcluding(op.selection_set.selections[i].directives, env)}

C13_AsClaimed ==
    \A c \in Calls :
        JustRecorded(c) =>
            /\ Len(Leaves(Recorded(c).query))
                 = Cardinality(KeptTopSelections(RecordedOp(c), self_vars))
            /\ \A i \in 1..Len(RecordedOp(c).selection_set.selections) :
                  i \notin KeptTopSelections(RecordedOp(c), self_vars) =>
                      <<i>> \notin obs[c].visited

(***************************************************************************)
(* C14.  Concurrent calls of translate on one instance are unsafe: there   *)
(* is an interleaving of two calls in which one resolves a fragment in the *)
(* other's fragment table, or reads and marks variables in the other's     *)
(* environment, so that its AST, its critical variables or its failure     *)
(* differ from what the same call gives when it runs alone.  Call 1 is the *)
(* call alone, call 3 the same call made concurrently with call 2.         *)
(*                                                                         *)
(* The witnesses are the interleavings the claim says exist.  The formula  *)
(* is the other half: the difference comes from the overlap and from       *)
(* nothing else, a call that did not overlap with the other one gives what *)
(* it gives alone.                                                         *)
(***************************************************************************)
SameAsAlone == Finished(3) => Outcome(3) = Outcome(1)

C14_DiffersOnlyWhenInterleaved ==
    /\ [](pc[2] = "start" => SameAsAlone)
    /\ []((Finished(2) /\ pc[3] = "start") => []SameAsAlone)
    /\ []((Finished(3) /\ pc[2] = "start") => []SameAsAlone)

\* A fragment resolved in the other call's table: both calls return, the
\* ASTs differ.
C14_Witness ==
    /\ pc[1] = "done"
    /\ pc[3] = "done"
    /\ DOMAIN result[3] = DOMAIN result[1]
    /\ \E n \in DOMAIN result[1] :
          result[3][n].query # result[1][n].query

\* Variables marked in, or read from, the other call's environment: the
\* same AST under other critical variables.
C14_CritvarsDiffer ==
    /\ pc[1] = "done"
    /\ pc[3] = "done"
    /\ DOMAIN result[3] = DOMAIN result[1]
    /\ \E n \in DOMAIN result[1] :
          /\ result[3][n].query = result[1][n].query
          /\ result[3][n].critvars # result[1][n].critvars

\* A call that returns alone and raises when overlapped, and the converse.
C14_FailureDiffers ==
    /\ pc[1] = "done"
    /\ pc[3] = "failed"

C14_SuccessDiffers ==
    /\ pc[1] = "failed"
    /\ pc[3] = "done"

(***************************************************************************)
(* C15.  The critical variables are a sound cache key: when two calls that *)
(* both return translate the same document under different variable values *)
(* and give an operation the same critical variables, they give it the     *)
(* same AST.                                                               *)
(***************************************************************************)
SameDocumentReturned(c, d) ==
    /\ c # d
    /\ pc[c] = "done"
    /\ pc[d] = "done"
    /\ gqltree[c] = gqltree[d]

C15_CritvarsDecideAst ==
    \A c \in Calls, d \in Calls :
        SameDocumentReturned(c, d) =>
            \A n \in DOMAIN result[c] :
                result[c][n].critvars = result[d][n].critvars =>
                    result[c][n].query = result[d][n].query

\* Two calls whose values differ in a variable that the operation uses as an
\* argument, under the same two critical variables.
C15_Witness ==
    /\ SameDocumentReturned(1, 2)
    /\ variables[1] # variables[2]
    /\ \E n \in DOMAIN result[1] :
          /\ Len(result[1][n].critvars) >= 2
          /\ result[1][n].critvars = result[2][n].critvars

(***************************************************************************)
(* C16.  translate terminates, with a result or an error, on every finite  *)
(* document in which no fragment reaches a spread of itself through        *)
(* selections that no directive excludes: the call comes to its end, and   *)
(* the nesting of _process_pathspec never reaches the depth at which the   *)
(* interpreter gives up.                                                   *)
(***************************************************************************)
\* The fragments spread in selections, inside fields and inline fragments
\* too; with heed, not inside a selection that a directive excludes.
RECURSIVE SpreadsIn(_, _, _)
SpreadsIn(selections, env, heed) ==
    UNION {LET sel == selections[i] IN
           IF heed /\ CarriesExcluding(sel.directives, env) THEN {}
           ELSE IF sel.kind = "FragmentSpread" THEN {sel.name}
           ELSE SpreadsIn(sel.selection_set.selections, env, heed)
           : i \in 1..Len(selections)}

\* names and what the fragments of names spread, k times over.
RECURSIVE ReachWithin(_, _, _, _, _)
ReachWithin(names, frags, env, heed, k) ==
    IF k = 0 THEN names
    ELSE ReachWithin(names \cup UNION {SpreadsIn(frags[f].selection_set.selections, env, heed)
                                       : f \in names \cap DOMAIN frags},
                     frags, env, heed, k - 1)

ReachesItself(f, frags, env, heed) ==
    f \in ReachWithin(SpreadsIn(frags[f].selection_set.selections, env, heed),
                      frags, env, heed, Cardinality(DOMAIN frags))

\* The variables of an operation as its selections find them: the supplied
\* ones, and the declared defaults of the others.
RECURSIVE WithDefaults(_, _)
WithDefaults(declarations, env) ==
    IF declarations = <<>> THEN env
    ELSE WithDefaults(Tail(declarations),
                      IF Head(declarations).name \in Names(env) THEN env
                      ELSE Append(env, Pair(Head(declarations).name,
                                            DefaultOf(Head(declarations)))))

Acyclic(c, heed) ==
    \A i \in 1..Len(gqltree[c]) :
        gqltree[c][i].kind = "OperationDefinition" =>
            \A f \in DOMAIN FragmentTable(gqltree[c]) :
                ~ReachesItself(f, FragmentTable(gqltree[c]),
                               WithDefaults(gqltree[c][i].variables, variables[c]), heed)

C16_AcyclicTerminates ==
    Acyclic(1, TRUE) ~> (Finished(1) /\ error[1] # RecursionError)

\* translate has returned the query of a document in which the operation
\* spreads a fragment that spreads itself, under a directive that excludes
\* the spread.
C16_Witness ==
    /\ pc[1] = "done"
    /\ result[1] # <<>>
    /\ Acyclic(1, TRUE)
    /\ ~Acyclic(1, FALSE)
    /\ "userFrag" \in SpreadsIn(gqltree[1][1].selection_set.selections,
                                WithDefaults(gqltree[1][1].variables, variables[1]), TRUE)

\* With the cycle open to the traversal the nesting has no end of its own.
C16_CycleOverflows ==
    /\ pc[1] = "failed"
    /\ error[1] = RecursionError
    /\ ~Acyclic(1, TRUE)

\* What Fairness rests on: a step of ProcessDefinition is taken under its
\* guard only, and no step of Next leaves the state as it is.
C16_StepsMove ==
    [][/\ Next => vars' # vars
       /\ (\E c \in Calls : ProcessDefinition(c)) => Selecting]_vars

====
